---- MODULE Spec2Model ----
\* Blurred floating bubbles background (BlurredBubblesBackground): placement,
\* physics integrator, occupancy grid, renderer and frame scheduler.
\*
\* Number system.  Lengths, positions and velocities are integers counting
\* tenths of a pixel (Px(n) is n pixels); time is in milliseconds.  speed,
\* jitter, the radius pulse and the pulse scale are in hundredths.  Every
\* real-valued result is rounded toward zero onto this grid (TDiv), so the
\* arithmetic is the code's real arithmetic cut to one decimal of a pixel.
EXTENDS Integers, Sequences, FiniteSets, TLC

VARIABLES
    cfg,              \* the component's props (fixed for one mount)
    env,              \* the ranges of the environment's inputs in this run
    smallViewport,    \* window.innerWidth < 640
    regenerateKey,    \* the regenerateKey prop (effect dependency)
    clientW, clientH, \* canvas.clientWidth / clientHeight (layout size)
    hidden,           \* document.hidden
    now,              \* the clock: timestamp of the latest animation tick
    pc,               \* "placing" (inside the effect's placement loop) | "running"
                      \* | "threw" (the effect raised a TypeError during set-up)
                      \* | "aborted" (the placement loop raised a TypeError; the
                      \*   resize observer stays registered)
    width, height,    \* the effect's width / height
    resizeTimer,      \* the effect's resizeTimer is not null
    pendingTimeouts,  \* debounce timeouts armed and neither fired nor cleared
    resizeElapsed,    \* ms since the pending debounce timeout was armed
    burst,            \* resize notifications of the latest burst, up to MaxBurst
    startTimer,       \* the delayed first requestAnimationFrame is pending
    staleStarts,      \* delayed starts of torn-down effects still pending
    raf,              \* a frame request of the running effect is pending
    animRef,          \* animRef.current: 0 = the running effect's latest request,
                      \* k > 0 = the latest request of staleLoops[k]
    staleLoops,       \* frame loops of torn-down effects with a request pending:
                      \* <<[lastTime, accumulatedTime], ...>>
    gridCols, gridRows, grid,
    bubbles, tries,
    lastTime, accumulatedTime,
    deltaTime,        \* frame's deltaTime, as computed by the latest visible tick
    canvas,           \* what the last draw() painted: <<[x, y, r], ...>>
    frameCount,       \* executed frames (clear, physics, draw) so far
    lastFrameT,       \* timestamp of the latest executed frame of this effect, -1 if none
    hiddenTicks,      \* ticks delivered while hidden since the latest visible tick
    requests,         \* the POST /likes requests: request id -> its record
    events,           \* committed rows of blog_like_events, as the set of their ips
                      \* (one slug, one day)
    likes,            \* committed count of the slug's row of blog_likes, 0 if none
    ensureTablePromise,  \* 0 = null, k > 0 = the promise of run k of table creation
    runs,             \* the runs of table creation so far, in order of their start
    loader            \* the page's initial loader: storage, root class, component

vars == <<cfg, env, smallViewport, regenerateKey, clientW, clientH, hidden, now,
          pc, width, height, resizeTimer, pendingTimeouts, resizeElapsed, burst,
          startTimer, staleStarts, raf,
          animRef, staleLoops, gridCols, gridRows, grid, bubbles, tries, lastTime, accumulatedTime,
          deltaTime, canvas, frameCount, lastFrameT, hiddenTicks,
          requests, events, likes, ensureTablePromise, runs, loader>>

\* The state of the likes API and of its database.
likesVars == <<requests, events, likes, ensureTablePromise, runs>>

\* The module state of lib/db: the memoised promise and the runs behind it.
ensureVars == <<ensureTablePromise, runs>>

\* The window's debounce timeouts and the count of the notifications.
debounceVars == <<pendingTimeouts, resizeElapsed, burst>>

----------------------------------------------------------------------------
\* Bounds of the model

MaxTime == 150
MaxFrames == 2
MaxRegens == 1
MaxBurst == 2
MaxRuns == 2
MaxEffectRuns == 3
MaxLoaderTime == 5000
LoaderStep == 500
DebounceStep == 500
NReq == 2

----------------------------------------------------------------------------
\* Arithmetic helpers

Px(n) == n * 10

Max(a, b) == IF a >= b THEN a ELSE b

Min(a, b) == IF a <= b THEN a ELSE b

Abs(a) == IF a >= 0 THEN a ELSE -a

\* The sequence s without its k-th element.
Without(s, k) == [i \in 1 .. Len(s) - 1 |-> IF i < k THEN s[i] ELSE s[i + 1]]

\* a / b for b > 0, rounded toward zero.
TDiv(a, b) == IF a >= 0 THEN a \div b ELSE -((-a) \div b)

\* Math.ceil(a / b) for b > 0.
CeilDiv(a, b) == -((-a) \div b)

RECURSIVE IsqrtIter(_, _)
IsqrtIter(n, x) ==
    LET y == (x + n \div x) \div 2
    IN  IF y >= x THEN x ELSE IsqrtIter(n, y)

\* Math.sqrt / Math.hypot, rounded toward zero.
Isqrt(n) == IF n < 2 THEN n ELSE IsqrtIter(n, n)

Hypot(dx, dy) == Isqrt(dx * dx + dy * dy)

----------------------------------------------------------------------------
\* Colours.  A string is a sequence of one-character strings; numbers are in
\* hundredths (r, g, b of 0 .. 255 as 0 .. 25500; degrees and percent alike).

\* NaN; every number of the colour computations is >= 0.
NaN == -1

\* The value undefined where a string is expected.
Undefined == <<"undefined">>

Digits == <<"0", "1", "2", "3", "4", "5", "6", "7", "8", "9">>

HexDigits == Digits \o <<"a", "b", "c", "d", "e", "f">>

IsHexDigit(c) == \E i \in 1 .. 16 : HexDigits[i] = c

HexValue(c) == (CHOOSE i \in 1 .. 16 : HexDigits[i] = c) - 1

\* parseInt(s, 16) for a string s of hex digits and other letters: the value
\* of the longest prefix of hex digits of its first two characters.
parseInt16(s) ==
    IF Len(s) = 0 \/ ~IsHexDigit(s[1]) THEN NaN
    ELSE IF Len(s) = 1 \/ ~IsHexDigit(s[2]) THEN HexValue(s[1])
    ELSE 16 * HexValue(s[1]) + HexValue(s[2])

\* String(n) for an integer n >= 0.
RECURSIVE IntToString(_)
IntToString(n) ==
    IF n < 10 THEN <<Digits[n + 1]>>
    ELSE IntToString(n \div 10) \o <<Digits[(n % 10) + 1]>>

\* `${v}` for a number v >= 0 (in hundredths) or NaN.
NumberToString(v) ==
    IF v = NaN THEN <<"N", "a", "N">>
    ELSE IntToString(v \div 100)
         \o (IF v % 100 = 0 THEN << >>
             ELSE <<".", Digits[((v % 100) \div 10) + 1]>>
                  \o (IF v % 10 = 0 THEN << >> ELSE <<Digits[(v % 10) + 1]>>))

\* color.replace('#', ''): the first '#' removed.
RemoveFirstHash(s) ==
    IF \E i \in 1 .. Len(s) : s[i] = "#"
    THEN LET k == CHOOSE i \in 1 .. Len(s) : s[i] = "#" /\ \A j \in 1 .. i - 1 : s[j] # "#"
         IN  [i \in 1 .. Len(s) - 1 |-> IF i < k THEN s[i] ELSE s[i + 1]]
    ELSE s

\* clamp of tint, after the multiplication by factor (in hundredths).
ClampChannel(v, factor) == IF v = NaN THEN NaN ELSE Max(0, Min(25500, v * factor))

\* tint(color, factor)
tint(color, factor) ==
    IF color = Undefined \/ color = << >> THEN color
    ELSE LET hex == RemoveFirstHash(color)
         IN  IF Len(hex) # 6 THEN color
             ELSE <<"r", "g", "b", "(">>
                  \o NumberToString(ClampChannel(parseInt16(SubSeq(hex, 1, 2)), factor))
                  \o <<",", " ">>
                  \o NumberToString(ClampChannel(parseInt16(SubSeq(hex, 3, 4)), factor))
                  \o <<",", " ">>
                  \o NumberToString(ClampChannel(parseInt16(SubSeq(hex, 5, 6)), factor))
                  \o <<")">>

IsNumChar(c) == c = "." \/ \E i \in 1 .. 10 : Digits[i] = c

\* color.match(/([\d\.]+)/g): the maximal runs of digits and dots of s from
\* position i on, cur being the run under way.
RECURSIVE Runs(_, _, _)
Runs(s, i, cur) ==
    IF i > Len(s) THEN (IF cur = << >> THEN << >> ELSE <<cur>>)
    ELSE IF IsNumChar(s[i]) THEN Runs(s, i + 1, Append(cur, s[i]))
    ELSE (IF cur = << >> THEN << >> ELSE <<cur>>) \o Runs(s, i + 1, << >>)

\* The value of a string of digits.
RECURSIVE DigitsValue(_)
DigitsValue(ds) ==
    IF ds = << >> THEN 0
    ELSE 10 * DigitsValue(SubSeq(ds, 1, Len(ds) - 1))
         + (CHOOSE i \in 1 .. 10 : Digits[i] = ds[Len(ds)]) - 1

\* Number(run) for a run of digits and dots, in hundredths (two decimals kept).
Number(run) ==
    LET dots == { i \in 1 .. Len(run) : run[i] = "." }
    IN  IF Cardinality(dots) > 1 \/ (Len(run) = 1 /\ dots # {}) THEN NaN
        ELSE IF dots = {} THEN 100 * DigitsValue(run)
        ELSE LET k == CHOOSE i \in dots : TRUE
                 frac == SubSeq(run, k + 1, Len(run)) \o <<"0", "0">>
             IN  100 * DigitsValue(SubSeq(run, 1, k - 1)) + DigitsValue(SubSeq(frac, 1, 2))

\* The arithmetic of rgbToHslTuple on r, g, b: <<h * 360, s * 100, l * 100>>.
\* With a NaN among them max and min are NaN, no case of the switch matches
\* and h stays 0.
HslOf(r, g, b) ==
    IF r = NaN \/ g = NaN \/ b = NaN THEN <<0, NaN, NaN>>
    ELSE LET max == Max(r, Max(g, b))
             min == Min(r, Min(g, b))
             d == max - min
             l == TDiv((max + min) * 100, 510)
         IN  IF max = min THEN <<0, 0, l>>
             ELSE <<IF max = r THEN TDiv((g - b) * 6000, d) + (IF g < b THEN 36000 ELSE 0)
                    ELSE IF max = g THEN TDiv((b - r) * 6000, d) + 12000
                    ELSE TDiv((r - g) * 6000, d) + 24000,
                    IF max + min > 25500 THEN TDiv(d * 10000, 51000 - max - min)
                    ELSE TDiv(d * 10000, max + min),
                    l>>

\* The k-th number of nums, undefined (NaN once divided) when there is none.
NumAt(nums, k) == IF k <= Len(nums) THEN Number(nums[k]) ELSE NaN

\* rgbToHslTuple(color): [kind |-> "tuple", hsl |-> <<h, s, l>>], "null", or
\* "TypeError" when color is undefined (color.startsWith is read).
rgbToHslTuple(color) ==
    IF color = Undefined THEN [kind |-> "TypeError", hsl |-> << >>]
    ELSE IF Len(color) = 7 /\ color[1] = "#"
    THEN [kind |-> "tuple",
          hsl |-> HslOf(IF parseInt16(SubSeq(color, 2, 3)) = NaN THEN NaN
                        ELSE 100 * parseInt16(SubSeq(color, 2, 3)),
                        IF parseInt16(SubSeq(color, 4, 5)) = NaN THEN NaN
                        ELSE 100 * parseInt16(SubSeq(color, 4, 5)),
                        IF parseInt16(SubSeq(color, 6, 7)) = NaN THEN NaN
                        ELSE 100 * parseInt16(SubSeq(color, 6, 7)))]
    ELSE IF Len(color) >= 3 /\ SubSeq(color, 1, 3) = <<"r", "g", "b">>
    THEN LET nums == Runs(color, 1, << >>)
         IN  [kind |-> "tuple", hsl |-> HslOf(NumAt(nums, 1), NumAt(nums, 2), NumAt(nums, 3))]
    ELSE [kind |-> "null", hsl |-> << >>]

----------------------------------------------------------------------------
\* Props and environment the model is run with

\* Palette entries: a well-formed #rrggbb, a well-formed rgb(r,g,b), a
\* 3-digit hex, a 6-character string that is no hex number, a colour name.
Orange == <<"#", "f", "f", "8", "0", "0", "0">>

RgbText == <<"r", "g", "b", "(", "1", "0", ",", "2", "0", "0", ",", "3", "0", ")">>

ShortHex == <<"#", "a", "b", "c">>

NotHex == <<"z", "z", "z", "z", "z", "z">>

Named == <<"r", "e", "d">>

\* The palettes the colour derivation is run with, the empty one included.
Palettes == { << >>, <<RgbText>>, <<ShortHex>>, <<NotHex>>, <<Named>> }

\* The defaults of the destructured props, with a one-colour palette, a fixed
\* spawn radius and no radius pulsation.
BaseCfg ==
    [count |-> 1, colors |-> <<Orange>>, minRadius |-> Px(120), maxRadius |-> Px(120),
     radiusMin |-> Px(120), radiusMax |-> Px(460),
     targetFps |-> 16, speed |-> 55,
     radiusPulseScale |-> 0, radiusPulseSeconds |-> 18]

\* The narrowest environment: one layout size, one tick period, one value of
\* every sampled quantity, a surface that stays visible, no regeneration.
\*   sizes      layout sizes of the canvas element, <<clientWidth, clientHeight>>
\*   deltas     elapsed milliseconds between two consecutive animation ticks
\*   noise      values of the noise field, in quarter turns of the flow angle
\*   wobbles    <<sin(..) * 0.12, cos(..) * 0.04>> of the target, in hundredths
\*   pulses     values of the sine of the radius pulsation, in hundredths
\*   fractions  fractions of its interval that rand draws, in percent
\*   small      values of window.innerWidth < 640
\*   hasContext canvas.getContext('2d') returns a context (not null)
BaseEnv ==
    [sizes |-> { <<Px(290), Px(144)>> }, deltas |-> {70}, noise |-> {0},
     wobbles |-> { <<12, -4>> }, pulses |-> {0}, fractions |-> {0, 100},
     mayHide |-> FALSE, mayRegenerate |-> FALSE, small |-> {FALSE},
     hasContext |-> TRUE]

\* One bubble in a strong flow field, on a canvas that is resized between a
\* size that holds it, one too narrow for it, and an empty one.
Solo ==
    [cfg |-> [BaseCfg EXCEPT !.speed = 550],
     env |-> [BaseEnv EXCEPT !.sizes = { <<0, 0>>, <<Px(100), Px(150)>>, <<Px(290), Px(144)>> },
                             !.noise = {0, 1, 2, 3},
                             !.wobbles = { <<-12, 4>>, <<12, -4>> }]]

\* Two bubbles of two radii, coloured by name: placement with rejections, and
\* bubbles that push each other once a smaller canvas has squeezed them
\* together.
Pair ==
    [cfg |-> [BaseCfg EXCEPT !.count = 2, !.minRadius = Px(50), !.colors = <<Named>>],
     env |-> [BaseEnv EXCEPT !.sizes = { <<Px(100), Px(100)>>, <<Px(290), Px(144)>> },
                             !.noise = {0, 2}]]

\* An empty pool: the scheduler alone, with a surface that is hidden and
\* shown, two tick periods, delayed starts and regeneration.
Sched(fps) ==
    [cfg |-> [BaseCfg EXCEPT !.count = 0, !.targetFps = fps],
     env |-> [BaseEnv EXCEPT !.deltas = {40, 70}, !.mayHide = TRUE,
                             !.mayRegenerate = TRUE, !.small = {FALSE, TRUE}]]

\* One resting bubble whose radius pulsates, with spawn radii outside
\* [radiusMin, radiusMax].
Pulsating ==
    [cfg |-> [BaseCfg EXCEPT !.minRadius = Px(50), !.maxRadius = Px(150),
                             !.radiusMin = Px(60), !.radiusMax = Px(130),
                             !.radiusPulseScale = 18, !.speed = 0],
     env |-> [BaseEnv EXCEPT !.sizes = { <<Px(290), Px(300)>> },
                             !.pulses = {-100, 0, 100}]]

\* The same with radiusMin above radiusMax.
Inverted ==
    [cfg |-> [BaseCfg EXCEPT !.radiusMin = Px(200), !.radiusMax = Px(100),
                             !.radiusPulseScale = 18, !.speed = 0],
     env |-> [BaseEnv EXCEPT !.pulses = {-100, 0, 100}]]

\* A canvas whose 2D context cannot be obtained.
NoContext ==
    [cfg |-> BaseCfg,
     env |-> [BaseEnv EXCEPT !.hasContext = FALSE, !.small = {FALSE, TRUE},
                             !.sizes = { <<0, 0>>, <<Px(290), Px(144)>> }]]

\* One bubble on a surface that is hidden and shown.
Paused ==
    [cfg |-> BaseCfg, env |-> [BaseEnv EXCEPT !.mayHide = TRUE, !.deltas = {40, 70}]]

\* One bubble, larger than the canvas is wide, through several frames of a
\* fast schedule.
Narrow ==
    [cfg |-> [BaseCfg EXCEPT !.targetFps = 60, !.speed = 550],
     env |-> [BaseEnv EXCEPT !.sizes = { <<Px(100), Px(300)>> }, !.deltas = {50},
                             !.noise = {0, 1}]]

\* One bubble coloured from the palette colors.
Palette(colors) == [cfg |-> [BaseCfg EXCEPT !.colors = colors], env |-> BaseEnv]

Scenarios ==
    { Solo, Pair, Sched(16), Sched(0), Sched(60), Pulsating, Inverted, NoContext, Paused,
      Narrow }
       \cup { Palette(colors) : colors \in Palettes }

\* rand(min, max) of ./utils at fraction f of the interval.
randAt(min, max, f) == min + TDiv((max - min) * f, 100)

\* rand(min, max) of ./utils: a number between min and max.
rand(min, max) == { randAt(min, max, f) : f \in env.fractions }

----------------------------------------------------------------------------
\* Occupancy grid

gridCell == Px(100)

\* allocateGrid that rounds the cell counts down.
allocateGrid_Floor(w, h) ==
    LET cols == Max(1, w \div gridCell)
        rows == Max(1, h \div gridCell)
    IN  <<cols, rows, [k \in 1 .. cols * rows |-> 0]>>

\* allocateGrid(): <<gridCols, gridRows, grid>> for a canvas of w x h.
allocateGrid(w, h) ==
    LET cols == Max(1, CeilDiv(w, gridCell))
        rows == Max(1, CeilDiv(h, gridCell))
    IN  <<cols, rows, [k \in 1 .. cols * rows |-> 0]>>

\* stampOccupancy without the test of the cell against the grid's columns and
\* rows: index cy * gridCols + cx is written whenever it is in the array.
stampOccupancy_NoRangeCheck(g, cols, rows, x, y, r) ==
    LET c0 == (x - r) \div gridCell
        c1 == (x + r) \div gridCell
        r0 == (y - r) \div gridCell
        r1 == (y + r) \div gridCell
    IN  [k \in DOMAIN g |->
            g[k] + 35 * Cardinality({ c \in (c0 .. c1) \X (r0 .. r1) :
                                        c[2] * cols + c[1] = k - 1 })]

\* stampOccupancy(x, y, r) on grid g of cols x rows; a cell holds hundredths.
stampOccupancy(g, cols, rows, x, y, r) ==
    LET c0 == (x - r) \div gridCell
        c1 == (x + r) \div gridCell
        r0 == (y - r) \div gridCell
        r1 == (y + r) \div gridCell
    IN  [k \in DOMAIN g |->
            LET cx == (k - 1) % cols
                cy == (k - 1) \div cols
            IN  IF cx >= c0 /\ cx <= c1 /\ cy >= r0 /\ cy <= r1
                THEN g[k] + 35
                ELSE g[k]]

----------------------------------------------------------------------------
\* Bubble pool and placement

maxTries == 5000

\* const minDist = Math.max(minRadius * 0.7, 120)
minDist == Max(TDiv(cfg.minRadius * 7, 10), Px(120))

\* r * 0.6, the padding of a bubble of radius r
Pad(r) == TDiv(r * 6, 10)

\* TooClose without the minDist floor.
TooClose_NoFloor(b, x, y, r) ==
    LET dx == b.x - x
        dy == b.y - y
        d2 == dx * dx + dy * dy
        lim == Pad(b.r + r)
    IN  d2 < lim * lim

\* One pass of the inner loop's test: is candidate (x, y, r) too close to b?
TooClose(b, x, y, r) ==
    LET dx == b.x - x
        dy == b.y - y
        d2 == dx * dx + dy * dy
        lim == Pad(b.r + r)
    IN  d2 < lim * lim \/ d2 < minDist * minDist

\* The value of ok after the inner loop over the pool bs.
SpacingOk(bs, x, y, r) == \A k \in 1 .. Len(bs) : ~TooClose(bs[k], x, y, r)

\* The while condition with the retry ceiling off by one.
PlacementContinues_OneMore == Len(bubbles) < cfg.count /\ tries <= maxTries

\* The while condition of the placement loop.
PlacementContinues == Len(bubbles) < cfg.count /\ tries < maxTries

\* colors[bubbles.length % colors.length | 0] for a pool of n bubbles: with an
\* empty palette the index is NaN | 0 = 0 and the entry undefined.
baseColor(n) ==
    IF Len(cfg.colors) = 0 THEN Undefined ELSE cfg.colors[(n % Len(cfg.colors)) + 1]

\* The record pushed for an accepted candidate; hsl is rgbToHslTuple(tinted).
NewBubble(x, y, r, ampF, vx, vy, jitter, tinted, hsl, f) ==
    [x |-> x, y |-> y, r |-> r, rBase |-> r, rAmp |-> TDiv(r * ampF, 1000),
     vx |-> vx, vy |-> vy, jitter |-> jitter, homeX |-> x, homeY |-> y,
     rPeriodFactor |-> randAt(75, 130, f), blur |-> randAt(60, 120, f),
     angle |-> randAt(0, 628, f), aspect |-> randAt(68, 125, f),
     noisePhase |-> randAt(0, 10000, f),
     color |-> tinted,
     hBase |-> IF hsl.kind = "tuple" THEN hsl.hsl[1] ELSE 20000,
     sBase |-> IF hsl.kind = "tuple" THEN hsl.hsl[2] ELSE 7000,
     lBase |-> IF hsl.kind = "tuple" THEN hsl.hsl[3] ELSE 6000]

----------------------------------------------------------------------------
\* Physics integrator

maxVel == Px(4)

\* Math.cos / Math.sin of the flow angle, for q quarter turns.
CosQ(q) == CASE q % 4 = 0 -> 1 [] q % 4 = 2 -> -1 [] OTHER -> 0

SinQ(q) == CASE q % 4 = 1 -> 1 [] q % 4 = 3 -> -1 [] OTHER -> 0

\* lowestOccupancyTarget(): <<tx, ty>> for the wobble wob of this instant.
lowestOccupancyTarget(wob) ==
    << TDiv(width * (50 + wob[1]), 100), TDiv(height * (50 + wob[2]), 100) >>

RECURSIVE SumX(_, _)
SumX(bs, k) == IF k = 0 THEN 0 ELSE bs[k].x + SumX(bs, k - 1)

RECURSIVE SumY(_, _)
SumY(bs, k) == IF k = 0 THEN 0 ELSE bs[k].y + SumY(bs, k - 1)

\* <<balanceX, balanceY>>, from the pool as it is before the loop.
Balance(bs) ==
    LET avgX == TDiv(SumX(bs, Len(bs)), Max(1, Len(bs)))
        avgY == TDiv(SumY(bs, Len(bs)), Max(1, Len(bs)))
    IN  << TDiv((TDiv(width, 2) - avgX) * 25, Max(width, Px(1)) * 10),
           TDiv((TDiv(height, 2) - avgY) * 15, Max(height, Px(1)) * 10) >>

\* 1) Flow field: <<fx, fy>> of bubble b for noise value q.
Flow(b, q) ==
    << TDiv(CosQ(q) * cfg.speed * b.jitter, 1000),
       TDiv(SinQ(q) * cfg.speed * b.jitter, 1000) >>

\* 2) Separation: the push on b from one other bubble o, <<0, 0>> out of range.
Push(b, o) ==
    LET dx == b.x - o.x
        dy == b.y - o.y
        d2 == dx * dx + dy * dy
        minD == TDiv((b.r + o.r) * 65, 100)
    IN  IF d2 < minD * minD /\ d2 > 0
        THEN LET d == Isqrt(d2)
             IN  << TDiv(dx * (minD - d) * 18, d * minD),
                    TDiv(dy * (minD - d) * 18, d * minD) >>
        ELSE <<0, 0>>

\* <<sx, sy>> of bubble i after the inner loop has run over others[1 .. j].
RECURSIVE Separation(_, _, _, _)
Separation(b, i, others, j) ==
    IF j = 0 THEN <<0, 0>>
    ELSE LET rest == Separation(b, i, others, j - 1)
             p == IF j # i THEN Push(b, others[j]) ELSE <<0, 0>>
         IN  << rest[1] + p[1], rest[2] + p[2] >>

\* 3) Coverage bias toward the target tgt.
Coverage(b, tgt) ==
    LET dxT == tgt[1] - b.x
        dyT == tgt[2] - b.y
        dT == Hypot(dxT, dyT)
    IN  IF dT = 0 THEN <<0, 0>>
        ELSE << TDiv(dxT * 15, dT * 100), TDiv(dyT * 15, dT * 100) >>

\* 4) Home tether.
Home(b) == << TDiv((b.homeX - b.x) * 12, 1000), TDiv((b.homeY - b.y) * 12, 1000) >>

\* b.vx *= damping
Damp(v) == TDiv(v * 93, 100)

\* One component of (v / vel) * maxVel, where n = vel * vel: the exact value
\* |v| * maxVel / sqrt(n) rounded toward zero.
Rescale(v, n) ==
    LET k == Isqrt(((v * maxVel) * (v * maxVel)) \div n)
    IN  IF v >= 0 THEN k ELSE -k

\* LimitVelocity with the velocity limit left out.
LimitVelocity_Unlimited(vx, vy) == << vx, vy >>

\* Velocity limit: <<vx, vy>> after the if (vel > maxVel) block.
LimitVelocity(vx, vy) ==
    LET n == vx * vx + vy * vy
    IN  IF n > maxVel * maxVel
        THEN << Rescale(vx, n), Rescale(vy, n) >>
        ELSE << vx, vy >>

\* EdgeBounce that reflects the velocity at the far edge but leaves the
\* position where the integration put it.
EdgeBounce_NoFarClamp(p, v, pad, dim) ==
    LET lo == IF p < pad THEN << pad, TDiv(Abs(v) * 85, 100) >> ELSE << p, v >>
    IN  IF lo[1] > dim - pad
        THEN << lo[1], -TDiv(Abs(lo[2]) * 85, 100) >>
        ELSE lo

\* Edge bounce on one axis: <<position, velocity>> after the two ifs, for a
\* canvas dimension dim and padding pad.
EdgeBounce(p, v, pad, dim) ==
    LET lo == IF p < pad THEN << pad, TDiv(Abs(v) * 85, 100) >> ELSE << p, v >>
    IN  IF lo[1] > dim - pad
        THEN << dim - pad, -TDiv(Abs(lo[2]) * 85, 100) >>
        ELSE lo

\* The body of the for loop, moving the bubble's anchor along with it.
StepBubble_MovesHome(b, i, others, bal, tgt, q) ==
    LET f == Flow(b, q)
        s == Separation(b, i, others, Len(others))
        c == Coverage(b, tgt)
        h == Home(b)
        vx1 == Damp(b.vx + f[1] + s[1] + c[1] + bal[1] + h[1])
        vy1 == Damp(b.vy + f[2] + s[2] + c[2] + bal[2] + h[2])
        v == LimitVelocity(vx1, vy1)
        ex == EdgeBounce(b.x + v[1], v[1], Pad(b.r), width)
        ey == EdgeBounce(b.y + v[2], v[2], Pad(b.r), height)
    IN  [b EXCEPT !.x = ex[1], !.vx = ex[2], !.y = ey[1], !.vy = ey[2],
                  !.homeX = ex[1], !.homeY = ey[1]]

\* The body of the for loop for bubble i = bs[i]: its record after the
\* iteration.  The separation force reads the pool `others`.
StepBubble(b, i, others, bal, tgt, q) ==
    LET f == Flow(b, q)
        s == Separation(b, i, others, Len(others))
        c == Coverage(b, tgt)
        h == Home(b)
        vx1 == Damp(b.vx + f[1] + s[1] + c[1] + bal[1] + h[1])
        vy1 == Damp(b.vy + f[2] + s[2] + c[2] + bal[2] + h[2])
        v == LimitVelocity(vx1, vy1)
        ex == EdgeBounce(b.x + v[1], v[1], Pad(b.r), width)
        ey == EdgeBounce(b.y + v[2], v[2], Pad(b.r), height)
    IN  [b EXCEPT !.x = ex[1], !.vx = ex[2], !.y = ey[1], !.vy = ey[2]]

\* The for loop from bubble i on: the pool is updated in place, so bubble i
\* reads the records the earlier iterations have already written.
RECURSIVE PhysicsLoop(_, _, _, _, _, _)
PhysicsLoop(i, bs, g, bal, tgt, qs) ==
    IF i > Len(bs) THEN [bubbles |-> bs, grid |-> g]
    ELSE LET nb == StepBubble(bs[i], i, bs, bal, tgt, qs[i])
         IN  PhysicsLoop(i + 1, [bs EXCEPT ![i] = nb],
                         stampOccupancy(g, gridCols, gridRows, nb.x, nb.y, Pad(nb.r)),
                         bal, tgt, qs)

\* updatePhysics(t): the pool and the grid after the tick, for the wobble wob
\* of the target and the noise values qs[i] sampled for the bubbles.
updatePhysics(wob, qs) ==
    PhysicsLoop(1, bubbles, grid, Balance(bubbles), lowestOccupancyTarget(wob), qs)

----------------------------------------------------------------------------
\* Renderer

\* rNow clamped from below only.
rNow_NoUpperClamp(b, pulse) ==
    Max(cfg.radiusMin, b.rBase + TDiv(b.rAmp * pulse, 100))

\* rNow of bubble b for the sine value pulse.
rNow(b, pulse) ==
    Min(cfg.radiusMax, Max(cfg.radiusMin, b.rBase + TDiv(b.rAmp * pulse, 100)))

\* The sine values rPulse can take: rPhase is 0 when rPeriodMs <= 0.
PulseValues == IF cfg.radiusPulseSeconds > 0 THEN env.pulses ELSE {0}

\* draw(): the ellipses painted for the pool bs with sine values ps[i].
draw(bs, ps) == [i \in 1 .. Len(bs) |-> [x |-> bs[i].x, y |-> bs[i].y, r |-> rNow(bs[i], ps[i])]]

----------------------------------------------------------------------------
\* Frame scheduler

effectiveFps == Max(1, cfg.targetFps)

\* The test against half the frame interval.
BelowFrameInterval_Half(acc) == acc * effectiveFps < 500

\* accumulatedTime < FRAME_INTERVAL, with FRAME_INTERVAL = 1000 / effectiveFps
BelowFrameInterval(acc) == acc * effectiveFps < 1000

----------------------------------------------------------------------------
\* The likes API: requests and their records

RATE_LIMIT_STATUS == 429

\* connectionLimit of the pool.
connectionLimit == 5

Reqs == 1 .. NReq

\* Values of getClientIp(req).
IPs == {"a", "b"}

\* A run of table creation as it starts.
\*   state       "connecting" | "likes" | "events" (the await it is at)
\*               | "fulfilled" | "rejected" (its promise is settled)
\*   connection  the run holds a pooled connection
\*   acquired    getConnection has resolved for it
\*   releases    calls of connection.release() so far
\*   handled     the catch callback registered on its promise has run
NewRun ==
    [state |-> "connecting", connection |-> FALSE, acquired |-> FALSE,
     releases |-> 0, handled |-> FALSE]

\* A POST /likes request from ip before it has run.
\*   pc          the await the handler is at
\*   run         the run whose promise ensureLikesTable returned to it, 0 if none
\*   connection  the handler holds a pooled connection
\*   acquired    getConnection has resolved for it
\*   releases    calls of connection.release() so far
\*   inTx        its connection has an open transaction
\*   eventLock   its transaction holds the lock of the event row of its ip
\*   wroteEvent  its transaction has inserted that row (uncommitted)
\*   wroteLike   its transaction has incremented the count (uncommitted),
\*               holding the lock of the count row
\*   applied     the database has committed its transaction
\*   committed   the handler's variable of that name
\*   failed      an error was thrown inside the inner try
\*   status      status of the response, 0 while there is none
\*   count       count of the response body
NewRequest(ip) ==
    [ip |-> ip, pc |-> "ensureLikesTable", run |-> 0, connection |-> FALSE, acquired |-> FALSE,
     releases |-> 0, inTx |-> FALSE, eventLock |-> FALSE, wroteEvent |-> FALSE,
     wroteLike |-> FALSE, applied |-> FALSE, committed |-> FALSE, failed |-> FALSE,
     status |-> 0, count |-> 0]

----------------------------------------------------------------------------
\* The initial loader: its record

STORAGE_KEY == "initial-loader-last-shown-v1"
THIRTY_MINUTES_MS == 30 * 60 * 1000
DISPLAY_MS == 3000
FADE_OUT_MS == 500

\* Date.now() when the page starts to load, ms.
PageLoadTime == 2 * THIRTY_MINUTES_MS

\* The values of localStorage[STORAGE_KEY] a page load can find, as numbers:
\* none, one of more than thirty minutes ago, one of a minute ago.
StoredTimes == {0, PageLoadTime - THIRTY_MINUTES_MS - 1000, PageLoadTime - 60000}

\* The loader as the page starts to load.
\*   pc            "script" (the inline script has not run) | "ready" | "threw"
\*                 (the mount effect raised an error)
\*   storageOk     localStorage can be used
\*   last          Number(localStorage.getItem(STORAGE_KEY) || 0)
\*   clock         ms since the page started to load
\*   classActive   the root element has the class initial-loader-active
\*   mounted       InitialLoader is mounted
\*   effectOn      its mount effect has run and has not been cleaned up
\*   hasCleanup    that run returned a cleanup function
\*   render, visible   the component's state
\*   hideTimer, cleanupTimer   clock at which the timeout is due, -1 if none
\*   effectRuns    runs of the mount effect so far
NewLoader(last, ok) ==
    [pc |-> "script", storageOk |-> ok, last |-> last, clock |-> 0,
     classActive |-> FALSE, mounted |-> FALSE, effectOn |-> FALSE,
     hasCleanup |-> FALSE, render |-> FALSE, visible |-> FALSE,
     hideTimer |-> -1, cleanupTimer |-> -1, effectRuns |-> 0]

----------------------------------------------------------------------------
\* The effect: set-up, placement loop, start

\* The state when the effect has run up to the placement loop: the canvas is
\* measured, the resize observer registered, the grid allocated, the pool empty.
\* Without a context (getContext is asserted non-null, not tested) ctx.scale
\* raises a TypeError right after the canvas was measured: nothing later runs.
EffectInit ==
    /\ \E sc \in Scenarios : cfg = sc.cfg /\ env = sc.env
    /\ smallViewport \in env.small
    /\ regenerateKey = 0
    /\ \E sz \in env.sizes : clientW = sz[1] /\ clientH = sz[2]
    /\ hidden = FALSE
    /\ now = 0
    /\ pc = (IF env.hasContext THEN "placing" ELSE "threw")
    /\ width = clientW
    /\ height = clientH
    /\ resizeTimer = FALSE
    /\ pendingTimeouts = 0
    /\ resizeElapsed = 0
    /\ burst = 0
    /\ startTimer = FALSE
    /\ staleStarts = 0
    /\ raf = FALSE
    /\ animRef = 0
    /\ staleLoops = << >>
    /\ gridCols = (IF env.hasContext THEN allocateGrid(clientW, clientH)[1] ELSE 0)
    /\ gridRows = (IF env.hasContext THEN allocateGrid(clientW, clientH)[2] ELSE 0)
    /\ grid = (IF env.hasContext THEN allocateGrid(clientW, clientH)[3] ELSE << >>)
    /\ bubbles = << >>
    /\ tries = 0
    /\ lastTime = 0
    /\ accumulatedTime = 0
    /\ deltaTime = 0
    /\ canvas = << >>
    /\ frameCount = 0
    /\ lastFrameT = -1
    /\ hiddenTicks = 0

\* The effect has run up to the placement loop; no request has reached the
\* likes API.
Init ==
    /\ EffectInit
    /\ requests = [r \in Reqs |-> NewRequest("a")]
    /\ events = {}
    /\ likes = 0
    /\ ensureTablePromise = 0
    /\ runs = << >>
    /\ loader = NewLoader(0, TRUE)

\* One iteration of the placement loop.
PlaceAttempt ==
    /\ pc = "placing"
    /\ PlacementContinues
    /\ tries' = tries + 1
    /\ \E r \in rand(cfg.minRadius, cfg.maxRadius) :
       \E x \in rand(Pad(r), width - Pad(r)) :
       \E y \in rand(Pad(r), height - Pad(r)) :
          IF SpacingOk(bubbles, x, y, r)
          THEN \* the draws for an accepted candidate, all at one fraction
               \E f \in env.fractions :
                  LET tinted == tint(baseColor(Len(bubbles)), randAt(72, 118, f))
                      hsl == rgbToHslTuple(tinted)
                  IN  IF hsl.kind = "TypeError"
                      THEN pc' = "aborted" /\ bubbles' = bubbles
                      ELSE /\ pc' = pc
                           /\ bubbles' = Append(bubbles,
                                 NewBubble(x, y, r,
                                           randAt(cfg.radiusPulseScale * 4,
                                                  cfg.radiusPulseScale * 11, f),
                                           randAt(-2, 2, f), randAt(-2, 2, f),
                                           randAt(70, 130, f), tinted, hsl, f))
          ELSE pc' = pc /\ bubbles' = bubbles
    /\ UNCHANGED <<likesVars, loader, cfg, env, staleLoops, animRef, smallViewport, regenerateKey, clientW, clientH, hidden, now,
                   width, height, resizeTimer, debounceVars, startTimer, staleStarts,
                   raf, gridCols, gridRows, grid, lastTime, accumulatedTime, deltaTime,
                   canvas, frameCount, lastFrameT, hiddenTicks>>

\* The rest of the effect once the loop has ended: the animation state is
\* initialised, the first frame requested (after startDelayMs on a small
\* viewport) and the pool drawn once.  tries is not read after the loop.
Start ==
    /\ pc = "placing"
    /\ ~PlacementContinues
    /\ pc' = "running"
    /\ tries' = 0
    /\ lastTime' = 0
    /\ accumulatedTime' = 0
    /\ IF smallViewport
       THEN startTimer' = TRUE /\ raf' = FALSE /\ animRef' = animRef
       ELSE startTimer' = FALSE /\ raf' = TRUE /\ animRef' = 0
    /\ \E ps \in [1 .. Len(bubbles) -> PulseValues] : canvas' = draw(bubbles, ps)
    /\ UNCHANGED <<likesVars, loader, cfg, env, staleLoops, smallViewport, regenerateKey, clientW, clientH, hidden, now,
                   width, height, resizeTimer, debounceVars, staleStarts, gridCols, gridRows,
                   grid, bubbles, deltaTime, frameCount, lastFrameT, hiddenTicks>>

\* The timeout of the delayed start fires.
StartTimeout ==
    /\ pc = "running"
    /\ startTimer
    /\ startTimer' = FALSE
    /\ raf' = TRUE
    /\ animRef' = 0
    /\ UNCHANGED <<likesVars, loader, cfg, env, staleLoops, smallViewport, regenerateKey, clientW, clientH, hidden, now,
                   pc, width, height, resizeTimer, debounceVars, staleStarts, gridCols,
                   gridRows, grid, bubbles, tries, lastTime, accumulatedTime, deltaTime,
                   canvas, frameCount, lastFrameT, hiddenTicks>>

----------------------------------------------------------------------------
\* The animation tick

\* The hidden branch, were it to record the timestamp of the tick.
FrameHidden_KeepsTime(dt) ==
    /\ hidden
    /\ now' = now + dt
    /\ hiddenTicks' = hiddenTicks + 1
    /\ animRef' = 0
    /\ lastTime' = now + dt
    /\ UNCHANGED <<likesVars, loader, cfg, env, staleLoops, smallViewport, regenerateKey, clientW, clientH, hidden, pc, width, height, resizeTimer, debounceVars, startTimer, staleStarts, raf,
                   gridCols, gridRows, grid, bubbles, tries, accumulatedTime,
                   deltaTime, canvas, frameCount, lastFrameT>>

\* frame(t) with t = now + dt, delivered while the surface is hidden.
FrameHidden(dt) ==
    /\ hidden
    /\ now' = now + dt
    /\ hiddenTicks' = hiddenTicks + 1
    /\ animRef' = 0
    /\ UNCHANGED <<likesVars, loader, cfg, env, staleLoops, smallViewport, regenerateKey, clientW, clientH, hidden, pc, width, height, resizeTimer, debounceVars, startTimer, staleStarts, raf,
                   gridCols, gridRows, grid, bubbles, tries, lastTime, accumulatedTime,
                   deltaTime, canvas, frameCount, lastFrameT>>

\* frame(t) while visible, below the frame interval: time is accumulated only.
FrameSkip(dt) ==
    LET t == now + dt
        delta == IF lastTime # 0 THEN t - lastTime ELSE 0
    IN  /\ ~hidden
        /\ BelowFrameInterval(accumulatedTime + delta)
        /\ now' = t
        /\ deltaTime' = delta
        /\ lastTime' = t
        /\ accumulatedTime' = accumulatedTime + delta
        /\ hiddenTicks' = 0
        /\ animRef' = 0
        /\ UNCHANGED <<likesVars, loader, cfg, env, staleLoops, smallViewport, regenerateKey, clientW, clientH, hidden,
                       pc, width, height, resizeTimer, debounceVars, startTimer, staleStarts,
                       raf, gridCols, gridRows, grid, bubbles, tries, canvas,
                       frameCount, lastFrameT>>

\* frame(t) while visible, the frame interval reached: clear, physics, draw.
FrameExecute(dt) ==
    LET t == now + dt
        delta == IF lastTime # 0 THEN t - lastTime ELSE 0
    IN  /\ ~hidden
        /\ ~BelowFrameInterval(accumulatedTime + delta)
        /\ frameCount < MaxFrames
        /\ now' = t
        /\ deltaTime' = delta
        /\ lastTime' = t
        /\ accumulatedTime' = 0
        /\ hiddenTicks' = 0
        /\ animRef' = 0
        /\ \E wob \in env.wobbles :
           \E qs \in [1 .. Len(bubbles) -> env.noise] :
              LET res == updatePhysics(wob, qs)
              IN  /\ bubbles' = res.bubbles
                  /\ grid' = res.grid
                  /\ \E ps \in [1 .. Len(bubbles) -> PulseValues] :
                        canvas' = draw(res.bubbles, ps)
        /\ frameCount' = frameCount + 1
        /\ lastFrameT' = t
        /\ UNCHANGED <<likesVars, loader, cfg, env, staleLoops, smallViewport, regenerateKey, clientW, clientH, hidden,
                       pc, width, height, resizeTimer, debounceVars, startTimer, staleStarts,
                       raf, gridCols, gridRows, tries>>

\* The pending animation frame request is served; every path requests the next.
Frame ==
    /\ pc = "running"
    /\ raf
    /\ \E dt \in env.deltas :
          /\ now + dt <= MaxTime
          /\ \/ FrameHidden(dt)
             \/ FrameSkip(dt)
             \/ FrameExecute(dt)

\* document.hidden changes.
VisibilityChange ==
    /\ env.mayHide
    /\ hidden' = ~hidden
    /\ UNCHANGED <<likesVars, loader, cfg, env, staleLoops, animRef, smallViewport, regenerateKey, clientW, clientH, now, pc, width,
                   height, resizeTimer, debounceVars, startTimer, staleStarts, raf, gridCols, gridRows,
                   grid, bubbles, tries, lastTime, accumulatedTime, deltaTime, canvas,
                   frameCount, lastFrameT, hiddenTicks>>

----------------------------------------------------------------------------
\* Resize

\* The delay of the debounce timeout, ms.
DebounceDelay == 1000

\* onResize without the clearTimeout of the pending timeout.
OnResize_NoCancel(sz) ==
    /\ pc \in {"running", "aborted"}
    /\ clientW' = sz[1]
    /\ clientH' = sz[2]
    /\ pendingTimeouts' = Min(pendingTimeouts + 1, MaxBurst)
    /\ resizeTimer' = TRUE
    /\ resizeElapsed' = 0
    /\ burst' = (IF resizeTimer THEN Min(burst + 1, MaxBurst) ELSE 1)
    /\ UNCHANGED <<likesVars, loader, cfg, env, staleLoops, animRef, smallViewport, regenerateKey, hidden, now, pc, width,
                   height, startTimer, staleStarts, raf, gridCols, gridRows, grid,
                   bubbles, tries, lastTime, accumulatedTime, deltaTime, canvas,
                   frameCount, lastFrameT, hiddenTicks>>

\* The resize observer reports the canvas at layout size sz: onResize restarts
\* the debounce timeout.
OnResize(sz) ==
    /\ pc \in {"running", "aborted"}
    /\ clientW' = sz[1]
    /\ clientH' = sz[2]
    /\ pendingTimeouts' = pendingTimeouts - (IF resizeTimer THEN 1 ELSE 0) + 1
    /\ resizeTimer' = TRUE
    /\ resizeElapsed' = 0
    /\ burst' = (IF resizeTimer THEN Min(burst + 1, MaxBurst) ELSE 1)
    /\ UNCHANGED <<likesVars, loader, cfg, env, staleLoops, animRef, smallViewport, regenerateKey, hidden, now, pc, width,
                   height, startTimer, staleStarts, raf, gridCols, gridRows, grid,
                   bubbles, tries, lastTime, accumulatedTime, deltaTime, canvas,
                   frameCount, lastFrameT, hiddenTicks>>

\* handleResize when the size differs: new size, new grid, one draw.
handleResize ==
    /\ width' = clientW
    /\ height' = clientH
    /\ gridCols' = allocateGrid(clientW, clientH)[1]
    /\ gridRows' = allocateGrid(clientW, clientH)[2]
    /\ grid' = allocateGrid(clientW, clientH)[3]
    /\ \E ps \in [1 .. Len(bubbles) -> PulseValues] : canvas' = draw(bubbles, ps)

\* Time passes while a debounce timeout is pending and not yet due.
DebounceWait ==
    /\ pendingTimeouts > 0
    /\ resizeElapsed < DebounceDelay
    /\ resizeElapsed' = Min(resizeElapsed + DebounceStep, DebounceDelay)
    /\ UNCHANGED <<likesVars, loader, cfg, env, staleLoops, animRef, smallViewport, regenerateKey, clientW, clientH, hidden, now,
                   pc, width, height, resizeTimer, pendingTimeouts, burst, startTimer, staleStarts, raf,
                   gridCols, gridRows, grid, bubbles, tries, lastTime,
                   accumulatedTime, deltaTime, canvas, frameCount, lastFrameT, hiddenTicks>>

\* The debounce timeout fires: handleResize, then resizeTimer = null.
ResizeTimeout ==
    /\ pc \in {"running", "aborted"}
    /\ pendingTimeouts > 0
    /\ resizeElapsed >= DebounceDelay
    /\ pendingTimeouts' = pendingTimeouts - 1
    /\ resizeElapsed' = 0
    /\ resizeTimer' = FALSE
    /\ UNCHANGED burst
    /\ IF clientW = width /\ clientH = height
       THEN UNCHANGED <<width, height, gridCols, gridRows, grid, canvas>>
       ELSE handleResize
    /\ UNCHANGED <<likesVars, loader, cfg, env, staleLoops, animRef, smallViewport, regenerateKey, clientW, clientH, hidden, now,
                   pc, startTimer, staleStarts, raf, bubbles, tries, lastTime,
                   accumulatedTime, deltaTime, frameCount, lastFrameT, hiddenTicks>>

----------------------------------------------------------------------------
\* Regeneration

\* regenerateKey changes: the effect's cleanup runs (the frame request is
\* cancelled, the observer disconnected, the debounce timeout cleared; the
\* timeout of a delayed start is not cleared), then the effect runs again up
\* to its placement loop.
Regenerate ==
    /\ pc = "running"
    /\ env.mayRegenerate
    /\ regenerateKey < MaxRegens
    /\ regenerateKey' = regenerateKey + 1
    /\ raf' = FALSE
    /\ animRef' = 0
    /\ staleLoops' =
          IF animRef = 0 THEN staleLoops
          ELSE Without(staleLoops, animRef)
               \o (IF raf THEN <<[lastTime |-> lastTime, accumulatedTime |-> accumulatedTime]>>
                          ELSE << >>)
    /\ pendingTimeouts' = pendingTimeouts - (IF resizeTimer THEN 1 ELSE 0)
    /\ resizeTimer' = FALSE
    /\ resizeElapsed' = 0
    /\ burst' = 0
    /\ staleStarts' = staleStarts + (IF startTimer THEN 1 ELSE 0)
    /\ startTimer' = FALSE
    /\ pc' = "placing"
    /\ width' = clientW
    /\ height' = clientH
    /\ gridCols' = allocateGrid(clientW, clientH)[1]
    /\ gridRows' = allocateGrid(clientW, clientH)[2]
    /\ grid' = allocateGrid(clientW, clientH)[3]
    /\ bubbles' = << >>
    /\ tries' = 0
    /\ lastTime' = 0
    /\ accumulatedTime' = 0
    /\ deltaTime' = 0
    /\ canvas' = << >>
    /\ lastFrameT' = -1
    /\ hiddenTicks' = 0
    /\ UNCHANGED <<likesVars, loader, cfg, env, smallViewport, clientW, clientH, hidden, now, frameCount>>

\* The timeout of a delayed start fires after its effect was torn down: the
\* cleanup does not clear it, so the torn-down effect requests its first frame.
StaleStartTimeout ==
    /\ staleStarts > 0
    /\ staleStarts' = staleStarts - 1
    /\ staleLoops' = Append(staleLoops, [lastTime |-> 0, accumulatedTime |-> 0])
    /\ animRef' = Len(staleLoops) + 1
    /\ UNCHANGED <<likesVars, loader, cfg, env, smallViewport, regenerateKey, clientW, clientH, hidden, now,
                   pc, width, height, resizeTimer, debounceVars, startTimer, raf, gridCols, gridRows,
                   grid, bubbles, tries, lastTime, accumulatedTime, deltaTime, canvas,
                   frameCount, lastFrameT, hiddenTicks>>

\* frame(t) of the torn-down loop k, called in the animation frame with
\* timestamp now.  Every path requests the next frame.  Regeneration is only
\* exercised with count = 0, so the pool of a torn-down effect is empty:
\* clearRect wipes the shared canvas, updatePhysics and draw loop over nothing.
StaleFrame(k) ==
    LET loop == staleLoops[k]
        delta == IF loop.lastTime # 0 THEN now - loop.lastTime ELSE 0
    IN  /\ k \in 1 .. Len(staleLoops)
        /\ cfg.count = 0
        /\ animRef' = k
        /\ IF hidden
           THEN UNCHANGED <<staleLoops, canvas>>
           ELSE IF BelowFrameInterval(loop.accumulatedTime + delta)
           THEN /\ staleLoops' = [staleLoops EXCEPT
                                    ![k] = [lastTime |-> now,
                                            accumulatedTime |-> loop.accumulatedTime + delta]]
                /\ UNCHANGED canvas
           ELSE /\ staleLoops' = [staleLoops EXCEPT
                                    ![k] = [lastTime |-> now, accumulatedTime |-> 0]]
                /\ canvas' = << >>
        /\ UNCHANGED <<likesVars, loader, cfg, env, smallViewport, regenerateKey, clientW, clientH, hidden, now,
                       pc, width, height, resizeTimer, debounceVars, startTimer, staleStarts, raf,
                       gridCols, gridRows, grid, bubbles, tries, lastTime, accumulatedTime,
                       deltaTime, frameCount, lastFrameT, hiddenTicks>>

----------------------------------------------------------------------------

Next ==
    \/ PlaceAttempt
    \/ Start
    \/ StartTimeout
    \/ Frame
    \/ VisibilityChange
    \/ \E sz \in env.sizes : OnResize(sz)
    \/ DebounceWait
    \/ ResizeTimeout
    \/ Regenerate
    \/ StaleStartTimeout
    \/ \E k \in 1 .. Len(staleLoops) : StaleFrame(k)

Spec == Init /\ [][Next]_vars

----------------------------------------------------------------------------
\* The likes API: POST /likes, one action per await of the handler.  Every
\* statement either resolves or rejects; a statement that needs a row lock
\* held by another transaction resolves only once the lock is free.

animVars ==
    <<cfg, env, smallViewport, regenerateKey, clientW, clientH, hidden, now, pc, width,
      height, resizeTimer, debounceVars, startTimer, staleStarts, raf, animRef, staleLoops, gridCols,
      gridRows, grid, bubbles, tries, lastTime, accumulatedTime, deltaTime, canvas,
      frameCount, lastFrameT, hiddenTicks>>

\* requests with the record of request r replaced by rec.
SetRequest(r, rec) == requests' = [requests EXCEPT ![r] = rec]

\* An awaited statement of request r rejects: control goes to the finally block.
Throw(r) == SetRequest(r, [requests[r] EXCEPT !.failed = TRUE, !.pc = "finally"])

\* The pooled connections in use.
InUse ==
    Cardinality({q \in Reqs : requests[q].connection})
       + Cardinality({k \in 1 .. Len(runs) : runs[k].connection})

\* runs with the record of run k replaced by rec.
SetRun(k, rec) == runs' = [runs EXCEPT ![k] = rec]

\* ensureLikesTable() without the test of ensureTablePromise: every call
\* starts a run.
EnsureLikesTable_AlwaysRuns(r) ==
    /\ requests[r].pc = "ensureLikesTable"
    /\ Len(runs) < MaxRuns
    /\ \E st \in {"connecting", "rejected"} :
          runs' = Append(runs, [NewRun EXCEPT !.state = st])
    /\ ensureTablePromise' = Len(runs) + 1
    /\ SetRequest(r, [requests[r] EXCEPT !.run = Len(runs) + 1, !.pc = "awaitEnsure"])
    /\ UNCHANGED <<animVars, loader, events, likes>>

\* ensureLikesTable(), up to its return: the memoised promise if there is one;
\* otherwise a run starts, up to its first await (or to the throw of
\* getDbPool, which rejects its promise at once), its promise is memoised and
\* the catch callback registered.
EnsureLikesTable(r) ==
    /\ requests[r].pc = "ensureLikesTable"
    /\ IF ensureTablePromise # 0
       THEN /\ SetRequest(r, [requests[r] EXCEPT !.run = ensureTablePromise,
                                                 !.pc = "awaitEnsure"])
            /\ UNCHANGED ensureVars
       ELSE /\ Len(runs) < MaxRuns
            /\ \E st \in {"connecting", "rejected"} :
                  runs' = Append(runs, [NewRun EXCEPT !.state = st])
            /\ ensureTablePromise' = Len(runs) + 1
            /\ SetRequest(r, [requests[r] EXCEPT !.run = Len(runs) + 1,
                                                 !.pc = "awaitEnsure"])
    /\ UNCHANGED <<animVars, loader, events, likes>>

\* The run's await getDbPool().getConnection(): a rejection rejects the run
\* with no connection to release.
RunGetConnection(k) ==
    /\ runs[k].state = "connecting"
    /\ \/ /\ InUse < connectionLimit
          /\ SetRun(k, [runs[k] EXCEPT !.state = "likes", !.connection = TRUE,
                                       !.acquired = TRUE])
       \/ SetRun(k, [runs[k] EXCEPT !.state = "rejected"])
    /\ UNCHANGED <<animVars, loader, requests, events, likes, ensureTablePromise>>

\* The finally block of the run, then its promise settles as st.
RunSettle(k, st) ==
    SetRun(k, [runs[k] EXCEPT !.state = st, !.connection = FALSE,
                              !.releases = runs[k].releases + 1])

\* await connection.query(TABLE_LIKES_SQL)
RunCreateLikes(k) ==
    /\ runs[k].state = "likes"
    /\ \/ SetRun(k, [runs[k] EXCEPT !.state = "events"])
       \/ RunSettle(k, "rejected")
    /\ UNCHANGED <<animVars, loader, requests, events, likes, ensureTablePromise>>

\* await connection.query(TABLE_EVENTS_SQL), the last statement of the run.
RunCreateEvents(k) ==
    /\ runs[k].state = "events"
    /\ \/ RunSettle(k, "fulfilled")
       \/ RunSettle(k, "rejected")
    /\ UNCHANGED <<animVars, loader, requests, events, likes, ensureTablePromise>>

\* The catch callback of the rejected promise of run k: it is the first
\* reaction registered on the promise.
RunCatch(k) ==
    /\ runs[k].state = "rejected"
    /\ ~runs[k].handled
    /\ ensureTablePromise' = 0
    /\ SetRun(k, [runs[k] EXCEPT !.handled = TRUE])
    /\ UNCHANGED <<animVars, loader, requests, events, likes>>

\* await ensureLikesTable() settles for request r: the handler goes on, or
\* the outer catch responds 500.  The reaction of an awaiting handler is
\* registered after the catch callback and so runs after it.
AwaitEnsure(r) ==
    /\ requests[r].pc = "awaitEnsure"
    /\ \/ /\ runs[requests[r].run].state = "fulfilled"
          /\ SetRequest(r, [requests[r] EXCEPT !.pc = "getConnection"])
       \/ /\ runs[requests[r].run].state = "rejected"
          /\ runs[requests[r].run].handled
          /\ SetRequest(r, [requests[r] EXCEPT !.status = 500, !.pc = "done"])
    /\ UNCHANGED <<animVars, loader, ensureVars, events, likes>>

\* await getDbPool().getConnection(): a rejection is caught by the outer
\* catch, with no connection to release.
GetConnection(r) ==
    /\ requests[r].pc = "getConnection"
    /\ \/ /\ InUse < connectionLimit
          /\ SetRequest(r, [requests[r] EXCEPT !.connection = TRUE, !.acquired = TRUE,
                                               !.pc = "checkLimit"])
       \/ SetRequest(r, [requests[r] EXCEPT !.status = 500, !.pc = "done"])
    /\ UNCHANGED <<animVars, loader, ensureVars, events, likes>>

\* SELECT 1 FROM blog_like_events ...: outside any transaction, it reads the
\* committed rows.
CheckLimit(r) ==
    /\ requests[r].pc = "checkLimit"
    /\ \/ SetRequest(r, [requests[r] EXCEPT
                            !.pc = IF requests[r].ip \in events THEN "limitedCount"
                                   ELSE "beginTransaction"])
       \/ Throw(r)
    /\ UNCHANGED <<animVars, loader, ensureVars, events, likes>>

\* The rate-limited branch: SELECT count, respond 429.
LimitedCount(r) ==
    /\ requests[r].pc = "limitedCount"
    /\ \/ SetRequest(r, [requests[r] EXCEPT !.status = RATE_LIMIT_STATUS,
                                            !.count = likes, !.pc = "finally"])
       \/ Throw(r)
    /\ UNCHANGED <<animVars, loader, ensureVars, events, likes>>

\* await connection.beginTransaction()
BeginTransaction(r) ==
    /\ requests[r].pc = "beginTransaction"
    /\ \/ SetRequest(r, [requests[r] EXCEPT !.inTx = TRUE, !.pc = "insertEvent"])
       \/ Throw(r)
    /\ UNCHANGED <<animVars, loader, ensureVars, events, likes>>

\* INSERT INTO blog_like_events ... ON DUPLICATE KEY UPDATE slug = slug: it
\* takes the lock of the row of (slug, ip, day), and inserts the row unless a
\* committed one exists.
InsertEvent(r) ==
    /\ requests[r].pc = "insertEvent"
    /\ \/ /\ \A q \in Reqs \ {r} :
                ~(requests[q].eventLock /\ requests[q].ip = requests[r].ip)
          /\ SetRequest(r, [requests[r] EXCEPT
                               !.eventLock = TRUE,
                               !.wroteEvent = requests[r].ip \notin events,
                               !.pc = "insertLike"])
       \/ Throw(r)
    /\ UNCHANGED <<animVars, loader, ensureVars, events, likes>>

\* INSERT INTO blog_likes ... ON DUPLICATE KEY UPDATE count = count + 1: it
\* takes the lock of the slug's row.
InsertLike(r) ==
    /\ requests[r].pc = "insertLike"
    /\ \/ /\ \A q \in Reqs \ {r} : ~requests[q].wroteLike
          /\ SetRequest(r, [requests[r] EXCEPT !.wroteLike = TRUE, !.pc = "selectCount"])
       \/ Throw(r)
    /\ UNCHANGED <<animVars, loader, ensureVars, events, likes>>

\* SELECT count inside the transaction: the committed count and its own
\* increment.
SelectCount(r) ==
    /\ requests[r].pc = "selectCount"
    /\ \/ SetRequest(r, [requests[r] EXCEPT !.count = likes + 1, !.pc = "commit"])
       \/ Throw(r)
    /\ UNCHANGED <<animVars, loader, ensureVars, events, likes>>

\* The database commits the transaction of request r: its writes become
\* visible together and its locks are freed.
Applied(r) ==
    /\ events' = IF requests[r].wroteEvent THEN events \cup {requests[r].ip} ELSE events
    /\ likes' = IF requests[r].wroteLike THEN likes + 1 ELSE likes

\* await connection.commit(): it resolves (committed = true, respond 200), or
\* rejects before the database committed, or rejects after it did (the reply
\* was lost).
Commit(r) ==
    /\ requests[r].pc = "commit"
    /\ \/ /\ Applied(r)
          /\ SetRequest(r, [requests[r] EXCEPT
                               !.applied = TRUE, !.inTx = FALSE, !.eventLock = FALSE,
                               !.wroteEvent = FALSE, !.wroteLike = FALSE,
                               !.committed = TRUE, !.status = 200, !.pc = "finally"])
       \/ /\ Throw(r)
          /\ UNCHANGED <<events, likes>>
       \/ /\ Applied(r)
          /\ SetRequest(r, [requests[r] EXCEPT
                               !.applied = TRUE, !.inTx = FALSE, !.eventLock = FALSE,
                               !.wroteEvent = FALSE, !.wroteLike = FALSE,
                               !.failed = TRUE, !.pc = "finally"])
    /\ UNCHANGED <<animVars, loader, ensureVars>>

\* connection.rollback(): the open transaction, if any, is undone and its
\* locks are freed; an error of rollback is ignored.
rollback(rec) ==
    [rec EXCEPT !.inTx = FALSE, !.eventLock = FALSE, !.wroteEvent = FALSE,
                !.wroteLike = FALSE]

\* The finally block without the rollback.
Finally_NoRollback(r) ==
    /\ requests[r].pc = "finally"
    /\ SetRequest(r, [requests[r] EXCEPT
                         !.connection = FALSE,
                         !.releases = requests[r].releases + 1,
                         !.status = IF requests[r].failed THEN 500 ELSE requests[r].status,
                         !.pc = "done"])
    /\ UNCHANGED <<animVars, loader, ensureVars, events, likes>>

\* The finally block: rollback unless committed, release; then the response
\* of the try, or 500 from the outer catch.
Finally(r) ==
    /\ requests[r].pc = "finally"
    /\ LET rec == IF requests[r].committed THEN requests[r] ELSE rollback(requests[r])
       IN  SetRequest(r, [rec EXCEPT
                             !.connection = FALSE,
                             !.releases = rec.releases + 1,
                             !.status = IF rec.failed THEN 500 ELSE rec.status,
                             !.pc = "done"])
    /\ UNCHANGED <<animVars, loader, ensureVars, events, likes>>

\* The database is empty, the requests have not run, no canvas is involved.
LikesInit ==
    /\ EffectInit
    /\ cfg = NoContext.cfg /\ env = NoContext.env
    /\ clientW = 0 /\ ~smallViewport
    /\ requests \in [Reqs -> {NewRequest(ip) : ip \in IPs}]
    /\ events = {}
    /\ likes = 0
    /\ ensureTablePromise = 0
    /\ runs = << >>
    /\ loader = NewLoader(0, TRUE)

LikesNext ==
    \/ \E r \in Reqs : EnsureLikesTable(r)
    \/ \E k \in 1 .. Len(runs) : RunGetConnection(k)
    \/ \E k \in 1 .. Len(runs) : RunCreateLikes(k)
    \/ \E k \in 1 .. Len(runs) : RunCreateEvents(k)
    \/ \E k \in 1 .. Len(runs) : RunCatch(k)
    \/ \E r \in Reqs : AwaitEnsure(r)
    \/ \E r \in Reqs : GetConnection(r)
    \/ \E r \in Reqs : CheckLimit(r)
    \/ \E r \in Reqs : LimitedCount(r)
    \/ \E r \in Reqs : BeginTransaction(r)
    \/ \E r \in Reqs : InsertEvent(r)
    \/ \E r \in Reqs : InsertLike(r)
    \/ \E r \in Reqs : SelectCount(r)
    \/ \E r \in Reqs : Commit(r)
    \/ \E r \in Reqs : Finally(r)

LikesSpec == LikesInit /\ [][LikesNext]_vars

----------------------------------------------------------------------------
\* The initial loader: the inline script of the layout, the mount effect of
\* InitialLoader and its two timeouts.

\* Date.now()
DateNow == PageLoadTime + loader.clock

LoaderUnchanged == UNCHANGED <<animVars, likesVars>>

\* The inline script of RootLayout: it marks the root element and stores the
\* time when there is no stored time or an old one; an error of localStorage
\* is ignored.  Then the page hydrates and InitialLoader mounts.
InlineScript ==
    /\ loader.pc = "script"
    /\ LET show == loader.storageOk
                      /\ (loader.last = 0 \/ DateNow - loader.last > 1800000)
       IN  loader' = [loader EXCEPT !.pc = "ready", !.mounted = TRUE,
                                    !.classActive = show,
                                    !.last = IF show THEN DateNow ELSE loader.last]
    /\ LoaderUnchanged

\* The mount effect of InitialLoader runs: localStorage.getItem throws when
\* the storage cannot be used; otherwise shouldShow decides between returning
\* at once and showing the overlay with its two timeouts.
MountEffect ==
    /\ loader.pc = "ready"
    /\ loader.mounted
    /\ ~loader.effectOn
    /\ loader.effectRuns < MaxEffectRuns
    /\ IF ~loader.storageOk
       THEN loader' = [loader EXCEPT !.pc = "threw", !.effectRuns = loader.effectRuns + 1]
       ELSE LET shouldShow == \/ loader.classActive
                              \/ loader.last = 0
                              \/ DateNow - loader.last > THIRTY_MINUTES_MS
            IN  IF ~shouldShow
                THEN loader' = [loader EXCEPT !.effectOn = TRUE, !.hasCleanup = FALSE,
                                             !.effectRuns = loader.effectRuns + 1]
                ELSE loader' = [loader EXCEPT
                                   !.effectOn = TRUE, !.hasCleanup = TRUE,
                                   !.effectRuns = loader.effectRuns + 1,
                                   !.classActive = TRUE,
                                   !.last = IF loader.classActive THEN loader.last ELSE DateNow,
                                   !.render = TRUE, !.visible = TRUE,
                                   !.hideTimer = loader.clock + DISPLAY_MS,
                                   !.cleanupTimer = loader.clock + DISPLAY_MS + FADE_OUT_MS]
    /\ LoaderUnchanged

\* React cleans the mount effect up: the cleanup function, if the run returned
\* one, clears both timeouts and removes the class.  The component either
\* stays mounted, its state kept, and the effect is then run again (as under
\* Strict Mode), or unmounts.
EffectCleanup(unmount) ==
    /\ loader.pc = "ready"
    /\ loader.effectOn
    /\ unmount \/ loader.effectRuns < MaxEffectRuns
    /\ LET l == IF loader.hasCleanup
                THEN [loader EXCEPT !.hideTimer = -1, !.cleanupTimer = -1,
                                    !.classActive = FALSE]
                ELSE loader
       IN  loader' = [l EXCEPT !.effectOn = FALSE, !.hasCleanup = FALSE,
                               !.mounted = ~unmount,
                               !.render = IF unmount THEN FALSE ELSE l.render,
                               !.visible = IF unmount THEN FALSE ELSE l.visible]
    /\ LoaderUnchanged

\* InitialLoader mounts again, with its initial state.
Remount ==
    /\ loader.pc = "ready"
    /\ ~loader.mounted
    /\ loader.effectRuns < MaxEffectRuns
    /\ loader' = [loader EXCEPT !.mounted = TRUE]
    /\ LoaderUnchanged

\* A timeout of the loader is due.
Due(timer) == timer # -1 /\ timer <= loader.clock

\* Time passes, up to the next due timeout.
LoaderTick ==
    /\ loader.pc = "ready"
    /\ ~Due(loader.hideTimer)
    /\ ~Due(loader.cleanupTimer)
    /\ \/ loader.clock < MaxLoaderTime
       \/ loader.hideTimer # -1
       \/ loader.cleanupTimer # -1
    /\ loader' = [loader EXCEPT !.clock = loader.clock + LoaderStep]
    /\ LoaderUnchanged

\* hideTimer fires, DISPLAY_MS after the effect ran.
HideTimeout ==
    /\ Due(loader.hideTimer)
    /\ loader' = [loader EXCEPT !.hideTimer = -1, !.visible = FALSE,
                                !.classActive = FALSE]
    /\ LoaderUnchanged

\* cleanupTimer fires, DISPLAY_MS + FADE_OUT_MS after the effect ran.
CleanupTimeout ==
    /\ Due(loader.cleanupTimer)
    /\ ~Due(loader.hideTimer)
    /\ loader' = [loader EXCEPT !.cleanupTimer = -1, !.render = FALSE]
    /\ LoaderUnchanged

\* A page load: no request has reached the likes API, no canvas is involved.
LoaderInit ==
    /\ EffectInit
    /\ cfg = NoContext.cfg /\ env = NoContext.env
    /\ clientW = 0 /\ ~smallViewport
    /\ requests = [r \in Reqs |-> NewRequest("a")]
    /\ events = {}
    /\ likes = 0
    /\ ensureTablePromise = 0
    /\ runs = << >>
    /\ loader \in { NewLoader(last, ok) : last \in StoredTimes, ok \in BOOLEAN }

LoaderNext ==
    \/ InlineScript
    \/ MountEffect
    \/ \E unmount \in BOOLEAN : EffectCleanup(unmount)
    \/ Remount
    \/ LoaderTick
    \/ HideTimeout
    \/ CleanupTimeout

\* Timeouts that are due fire, time passes, and a mounted component whose
\* effect was cleaned up has it run again.
LoaderSpec ==
    /\ LoaderInit
    /\ [][LoaderNext]_vars
    /\ WF_vars(LoaderTick)
    /\ WF_vars(HideTimeout)
    /\ WF_vars(CleanupTimeout)
    /\ WF_vars(MountEffect)

----------------------------------------------------------------------------
\* C1

\* The pool after a tick in which every bubble is stepped from the pool as it
\* was at the start of the tick (bs0), for the same sampled inputs.
SnapshotTick(bs0, wob, qs) ==
    [i \in 1 .. Len(bs0) |->
        StepBubble(bs0[i], i, bs0, Balance(bs0), lowestOccupancyTarget(wob), qs[i])]

\* C1: within one physics tick the forces on every bubble, the separation
\* force included, are computed from the positions all bubbles had at the
\* start of the tick, so the pool after an executed frame is the pool
\* obtained by stepping every bubble from the start-of-tick snapshot.
C1_ForcesFromStartOfTick ==
    [][frameCount' # frameCount =>
          \E wob \in env.wobbles :
          \E qs \in [1 .. Len(bubbles) -> env.noise] :
             bubbles' = SnapshotTick(bubbles, wob, qs)]_vars

----------------------------------------------------------------------------
\* C2

\* A step that ends a placement iteration with a new bubble, or a physics tick.
PlacedOrTicked == frameCount' # frameCount \/ Len(bubbles') > Len(bubbles)

\* 0.6 * r <= p <= dim - 0.6 * r
InPadded(p, r, dim) == Pad(r) <= p /\ p <= dim - Pad(r)

\* C2 as stated: after initial placement and after every physics tick, for
\* every canvas width and height, every bubble has 0.6 r <= x <= width - 0.6 r
\* and 0.6 r <= y <= height - 0.6 r.
C2_InBoundsForEverySize ==
    [][PlacedOrTicked =>
          \A i \in 1 .. Len(bubbles') :
             /\ InPadded(bubbles'[i].x, bubbles'[i].r, width')
             /\ InPadded(bubbles'[i].y, bubbles'[i].r, height')]_vars

\* C2 amended: after initial placement and after every physics tick (also the
\* ticks that follow a resize), every bubble has 0.6 r <= x <= width - 0.6 r
\* when width >= 1.2 r, and 0.6 r <= y <= height - 0.6 r when height >= 1.2 r.
C2_InBoundsWhenItFits ==
    [][PlacedOrTicked =>
          \A i \in 1 .. Len(bubbles') :
             /\ width' >= 2 * Pad(bubbles'[i].r)
                   => InPadded(bubbles'[i].x, bubbles'[i].r, width')
             /\ height' >= 2 * Pad(bubbles'[i].r)
                   => InPadded(bubbles'[i].y, bubbles'[i].r, height')]_vars

\* A tick has brought a bubble, placed on a wider canvas, back to the far
\* edge of a canvas that still holds it.
C2_Witness ==
    /\ frameCount > 0
    /\ \E i \in 1 .. Len(bubbles) :
          /\ width >= 2 * Pad(bubbles[i].r)
          /\ bubbles[i].homeX > width - Pad(bubbles[i].r)
          /\ bubbles[i].x = width - Pad(bubbles[i].r)

----------------------------------------------------------------------------
\* C3

\* C3: at creation and after every physics tick, boundary reflection included,
\* every bubble's speed sqrt(vx^2 + vy^2) is at most the cap of 4 per frame.
C3_SpeedWithinCap ==
    \A i \in 1 .. Len(bubbles) :
       bubbles[i].vx * bubbles[i].vx + bubbles[i].vy * bubbles[i].vy <= Px(4) * Px(4)

\* A tick has left a bubble within a tenth of the cap: the summed forces
\* exceeded it and the velocity was scaled back.
C3_Witness ==
    /\ frameCount > 0
    /\ \E i \in 1 .. Len(bubbles) :
          bubbles[i].vx * bubbles[i].vx + bubbles[i].vy * bubbles[i].vy
             >= (Px(4) - 1) * (Px(4) - 1)

----------------------------------------------------------------------------
\* C4

\* C4 as stated: at every frame the drawn radius and the stored radius r of
\* every bubble lie within [radiusMin, radiusMax], for every configuration.
C4_RadiiWithinMinMax ==
    /\ \A i \in 1 .. Len(canvas) :
          cfg.radiusMin <= canvas[i].r /\ canvas[i].r <= cfg.radiusMax
    /\ \A i \in 1 .. Len(bubbles) :
          cfg.radiusMin <= bubbles[i].r /\ bubbles[i].r <= cfg.radiusMax

\* C4 amended: the drawn radius lies within [radiusMin, radiusMax] when
\* radiusMin <= radiusMax and is radiusMax otherwise; the stored radius r is
\* the spawn radius rBase and lies within [minRadius, maxRadius].
C4_RadiiWithinTheirRanges ==
    /\ \A i \in 1 .. Len(canvas) :
          IF cfg.radiusMin <= cfg.radiusMax
          THEN cfg.radiusMin <= canvas[i].r /\ canvas[i].r <= cfg.radiusMax
          ELSE canvas[i].r = cfg.radiusMax
    /\ \A i \in 1 .. Len(bubbles) :
          /\ bubbles[i].r = bubbles[i].rBase
          /\ cfg.minRadius <= cfg.maxRadius
                => cfg.minRadius <= bubbles[i].r /\ bubbles[i].r <= cfg.maxRadius

\* A frame has drawn a bubble whose pulsating radius was above radiusMax.
C4_Witness ==
    /\ frameCount > 0
    /\ cfg.radiusMin <= cfg.radiusMax
    /\ \E i \in 1 .. Len(canvas) :
          /\ bubbles[i].rBase + bubbles[i].rAmp > cfg.radiusMax
          /\ canvas[i].r = cfg.radiusMax

----------------------------------------------------------------------------
\* C5

\* The squared distance between the centers of bubbles a and b.
Dist2(a, b) == (a.x - b.x) * (a.x - b.x) + (a.y - b.y) * (a.y - b.y)

\* C5: while the pool is being placed and when placement finishes, every pair
\* of distinct bubbles has center distance d >= 0.6 (r_i + r_j) and
\* d >= max(0.7 minRadius, 120), compared as 25 d^2 >= 9 (r_i + r_j)^2 and
\* 100 d^2 >= (max(7 minRadius, 1200))^2 in pixels.
C5_PlacedPairsSpaced ==
    pc = "placing" =>
       \A i, j \in 1 .. Len(bubbles) :
          i # j =>
             /\ 25 * Dist2(bubbles[i], bubbles[j])
                   >= 9 * (bubbles[i].r + bubbles[j].r) * (bubbles[i].r + bubbles[j].r)
             /\ 100 * Dist2(bubbles[i], bubbles[j])
                   >= Max(7 * cfg.minRadius, Px(1200)) * Max(7 * cfg.minRadius, Px(1200))

\* Two bubbles are placed and at least one candidate was rejected on the way.
C5_Witness == pc = "placing" /\ Len(bubbles) = 2 /\ tries > 2

----------------------------------------------------------------------------
\* C6

\* C6: the placement loop makes at most 5000 attempts; the pool never holds
\* more than count bubbles; and when the loop has ended with fewer than count
\* bubbles, all 5000 attempts were used.
C6_PlacementBounded ==
    /\ tries <= 5000
    /\ Len(bubbles) <= cfg.count
    /\ (pc = "placing" /\ ~PlacementContinues /\ Len(bubbles) < cfg.count) => tries = 5000

\* The loop has ended with fewer bubbles than requested.
C6_Witness == pc = "placing" /\ ~PlacementContinues /\ Len(bubbles) < cfg.count

----------------------------------------------------------------------------
\* C7

\* C7: whenever the canvas size seen by the simulation changes, or the
\* regeneration key changes, the previous pool is discarded entirely: the
\* step leaves no bubble of it in the pool or on the canvas.
C7_ResetDiscardsPool ==
    [][(width' # width \/ height' # height \/ regenerateKey' # regenerateKey)
          => (bubbles' = << >> /\ canvas' = << >>)]_vars

----------------------------------------------------------------------------
\* C8

\* A step that allocates the grid: a handled resize, or the effect's set-up.
GridAllocated == width' # width \/ height' # height \/ pc' = "placing"

\* C8 as stated: after a handled resize (and after the initial allocation) the
\* grid has exactly ceil(width / 100) columns and ceil(height / 100) rows, all
\* zero, for all width, height >= 0.
C8_GridIsCeilOfSize ==
    [][GridAllocated =>
          /\ gridCols' = CeilDiv(width', Px(100))
          /\ gridRows' = CeilDiv(height', Px(100))
          /\ Len(grid') = gridCols' * gridRows'
          /\ \A k \in 1 .. Len(grid') : grid'[k] = 0]_vars

\* C8 amended: the grid has max(1, ceil(width / 100)) columns and
\* max(1, ceil(height / 100)) rows, all zero.
C8_GridIsCeilOfSizeAtLeastOne ==
    [][GridAllocated =>
          /\ gridCols' = Max(1, CeilDiv(width', Px(100)))
          /\ gridRows' = Max(1, CeilDiv(height', Px(100)))
          /\ Len(grid') = gridCols' * gridRows'
          /\ \A k \in 1 .. Len(grid') : grid'[k] = 0]_vars

\* A resize to a narrower canvas has been handled after a frame had stamped
\* the grid, and no frame has run since: the grid is the new one.
C8_Witness ==
    /\ frameCount > 0
    /\ \E i \in 1 .. Len(bubbles) : bubbles[i].x > width
    /\ \A k \in 1 .. Len(grid) : grid[k] = 0

----------------------------------------------------------------------------
\* C9

\* C9: the first visible tick after ticks delivered while hidden adds to the
\* accumulated time no more than the time since the surface became visible
\* again, which is at most the time since the latest hidden tick.
C9_HiddenTimeNotAccumulated ==
    [][(now' # now /\ ~hidden /\ hiddenTicks > 0) => deltaTime' <= now' - now]_vars

----------------------------------------------------------------------------
\* C10

\* C10: a tick executes a frame only while visible and only if the time
\* accumulated since the last executed frame has reached 1000 / max(1,
\* targetFps); a tick that executes no frame leaves pool, grid and canvas
\* alone and requests the next tick; two consecutively executed frames are at
\* least that interval apart; the first tick after start executes no frame.
C10_FramesRateLimited ==
    [][/\ frameCount' # frameCount =>
             /\ ~hidden
             /\ (accumulatedTime + deltaTime') * Max(1, cfg.targetFps) >= 1000
             /\ lastTime # 0
             /\ lastFrameT # -1 => (now' - lastFrameT) * Max(1, cfg.targetFps) >= 1000
       /\ (now' # now /\ frameCount' = frameCount) =>
             /\ raf'
             /\ UNCHANGED <<bubbles, grid, canvas>>
             /\ ~hidden => (accumulatedTime + deltaTime') * Max(1, cfg.targetFps) < 1000
      ]_vars

\* Two frames of one effect have been executed, the second after a tick that
\* was skipped.
C10_Witness ==
    /\ regenerateKey = 0
    /\ frameCount >= 2
    /\ lastFrameT = now
    /\ deltaTime < 70

----------------------------------------------------------------------------
\* C11

\* C11: after the effect's cleanup no callback of the torn-down effect runs:
\* no step is the firing of its delayed-start timeout or a tick of its frame
\* loop.
C11_NoCallbackAfterTeardown ==
    [][/\ ~StaleStartTimeout
       /\ \A k \in 1 .. Len(staleLoops) : ~StaleFrame(k)]_vars

----------------------------------------------------------------------------
\* C12

\* C12: when getContext returns null, start-up returns silently: no exception
\* is raised, no frame is scheduled (at once or after the start delay), no
\* resize timer can be armed and no bubble is placed.
C12_NoContextReturnsSilently ==
    ~env.hasContext =>
        /\ pc # "threw"
        /\ ~raf /\ ~startTimer /\ ~resizeTimer
        /\ bubbles = << >>

----------------------------------------------------------------------------
\* C13

\* C13: after any number of physics ticks from a valid placement, every pair
\* of distinct bubbles is at least 0.65 (r_i + r_j) apart, compared as
\* d^2 >= ceil(169 (r_i + r_j)^2 / 400), and every bubble center is on the
\* canvas.
C13_SeparatedAndOnCanvas ==
    frameCount > 0 =>
       /\ \A i, j \in 1 .. Len(bubbles) :
             i # j =>
                Dist2(bubbles[i], bubbles[j])
                   >= CeilDiv(169 * (bubbles[i].r + bubbles[j].r)
                                  * (bubbles[i].r + bubbles[j].r), 400)
       /\ \A i \in 1 .. Len(bubbles) :
             /\ 0 <= bubbles[i].x /\ bubbles[i].x <= width
             /\ 0 <= bubbles[i].y /\ bubbles[i].y <= height

----------------------------------------------------------------------------
\* C14

\* A well-formed #rrggbb string.
WellFormedHex(e) == Len(e) = 7 /\ e[1] = "#" /\ \A i \in 2 .. 7 : IsHexDigit(e[i])

\* A well-formed rgb(r,g,b) string.
WellFormedRgb(e) ==
    /\ Len(e) >= 5
    /\ SubSeq(e, 1, 4) = <<"r", "g", "b", "(">>
    /\ e[Len(e)] = ")"
    /\ Len(Runs(e, 1, << >>)) = 3
    /\ \A k \in 1 .. 3 : Number(Runs(e, 1, << >>)[k]) # NaN

\* C14: for every palette entry that is neither (a missing entry, a 3-digit
\* hex and a 6-character non-hex string among them), bubble creation raises
\* no error, the bubble's colour is the entry unchanged and its HSL baseline is
\* the fallback (200, 70, 60).
C14_MalformedEntriesFallBack ==
    /\ pc # "aborted"
    /\ \A i \in 1 .. Len(bubbles) :
          LET e == baseColor(i - 1)
          IN  ~(WellFormedHex(e) \/ WellFormedRgb(e)) =>
                 /\ bubbles[i].color = e
                 /\ bubbles[i].hBase = 20000
                 /\ bubbles[i].sBase = 7000
                 /\ bubbles[i].lBase = 6000

----------------------------------------------------------------------------
\* C15

\* C15: in every interleaving of POST /likes requests the count is incremented
\* at most once per (slug, ip, day): it never exceeds the number of event
\* rows, and of two requests with the same slug, ip and day at most one is
\* answered 200, the other 429 if it is answered from the try block.
C15_OneLikePerIpAndDay ==
    /\ likes <= Cardinality(events)
    /\ \A q, r \in Reqs :
          (q # r /\ requests[q].ip = requests[r].ip /\ requests[q].status = 200)
             => requests[r].status \in {0, RATE_LIMIT_STATUS, 500}

----------------------------------------------------------------------------
\* C16

\* C16: a tick delivered while the surface is hidden changes nothing of the
\* pool, the grid, the canvas, lastTime and accumulatedTime, executes no
\* frame, and leaves one frame request pending, held by animRef.
C16_HiddenTickOnlyReschedules ==
    [][(hidden /\ now' # now) =>
          /\ UNCHANGED <<bubbles, grid, gridCols, gridRows, canvas, lastTime,
                         accumulatedTime, frameCount>>
          /\ raf' /\ animRef' = 0]_vars

\* A tick has been delivered while hidden to a pool that had already moved.
C16_Witness == hidden /\ hiddenTicks > 0 /\ frameCount > 0 /\ Len(bubbles) > 0

----------------------------------------------------------------------------
\* C17

\* The debounce timeout fires and its callback runs to the end.
ResizeHandled == resizeTimer /\ ~resizeTimer' /\ regenerateKey' = regenerateKey

\* C17: at most one debounce timeout is pending, and it is the one resizeTimer
\* holds; a notification leaves exactly one pending, armed anew; the resize
\* handler runs only when 1000 ms have passed since the last notification and
\* leaves no timeout pending, so that a burst is handled once; when the size
\* changed it sets the size, reallocates the grid and draws the pool as it is,
\* without a physics update or a frame; when the size is the same it changes
\* nothing.
C17_ResizeDebounced ==
    [][/\ pendingTimeouts' <= 1
       /\ resizeTimer' <=> (pendingTimeouts' = 1)
       /\ (burst' # burst /\ burst' > 0) => (pendingTimeouts' = 1 /\ resizeElapsed' = 0)
       /\ ResizeHandled =>
             /\ resizeElapsed = DebounceDelay
             /\ pendingTimeouts' = 0
             /\ UNCHANGED <<bubbles, frameCount, lastTime, accumulatedTime, raf, now>>
             /\ IF clientW = width /\ clientH = height
                THEN UNCHANGED <<width, height, gridCols, gridRows, grid, canvas>>
                ELSE /\ width' = clientW
                     /\ height' = clientH
                     /\ gridCols' = Max(1, CeilDiv(clientW, Px(100)))
                     /\ gridRows' = Max(1, CeilDiv(clientH, Px(100)))
                     /\ Len(grid') = gridCols' * gridRows'
                     /\ \A k \in 1 .. Len(grid') : grid'[k] = 0
                     /\ \E ps \in [1 .. Len(bubbles) -> PulseValues] :
                           canvas' = draw(bubbles, ps)]_vars

\* A burst of at least two notifications has been handled after a frame had
\* moved the pool: the size is the reported one, the picture is the pool's,
\* and no timeout is pending.
C17_Witness ==
    /\ burst >= 2
    /\ pendingTimeouts = 0
    /\ frameCount > 0
    /\ Len(bubbles) > 0
    /\ width = clientW /\ height = clientH
    /\ \E i \in 1 .. Len(bubbles) : bubbles[i].x > width
    /\ Len(canvas) = Len(bubbles)

----------------------------------------------------------------------------
\* C18

\* Cell k of the grid meets the box [x - p, x + p] x [y - p, y + p] that a tick
\* stamps for bubble b, p being 0.6 of its radius.
BoxMeetsCell(b, k) ==
    LET cx == (k - 1) % gridCols
        cy == (k - 1) \div gridCols
        p == Pad(b.r)
    IN  /\ b.x - p < (cx + 1) * gridCell
        /\ b.x + p >= cx * gridCell
        /\ b.y - p < (cy + 1) * gridCell
        /\ b.y + p >= cy * gridCell

\* C18: a step that does not reallocate the grid keeps its length and lowers
\* no cell, and a tick adds to every cell 0.35 for each bubble whose stamped
\* box meets the cell, whatever the order of the bubbles, and nothing else.
C18_StampsOnlyAccumulate ==
    [][~GridAllocated =>
          /\ Len(grid') = Len(grid)
          /\ \A k \in 1 .. Len(grid) :
                /\ grid'[k] >= grid[k]
                /\ frameCount' # frameCount =>
                      grid'[k] = grid[k] + 35 * Cardinality({ i \in 1 .. Len(bubbles') :
                                                               BoxMeetsCell(bubbles'[i], k) })]_vars

\* Two ticks have stamped a cell and left another alone, and a stamped box
\* reached beyond the columns or rows of the grid.
C18_Witness ==
    /\ frameCount >= 2
    /\ \E k \in 1 .. Len(grid) : grid[k] >= 70
    /\ \E k \in 1 .. Len(grid) : grid[k] = 0
    /\ \E i \in 1 .. Len(bubbles) :
          \/ bubbles[i].x + Pad(bubbles[i].r) >= gridCols * gridCell
          \/ bubbles[i].y + Pad(bubbles[i].r) >= gridRows * gridCell
          \/ bubbles[i].x - Pad(bubbles[i].r) < 0
          \/ bubbles[i].y - Pad(bubbles[i].r) < 0

----------------------------------------------------------------------------
\* C19

\* The fields of a bubble other than its position and its velocity.
Moving == {"x", "y", "vx", "vy"}

CreationFields(b) == [f \in (DOMAIN b) \ Moving |-> b[f]]

\* C19: once the placement loop has ended, no step of the effect (a tick, a
\* draw, a handled resize) changes the number of bubbles or any field of a
\* bubble other than x, y, vx and vy; and a tick changes neither the size of
\* the canvas nor the dimensions of the grid.
C19_TicksKeepCreationFields ==
    [][(pc = "running" /\ pc' = "running") =>
          /\ Len(bubbles') = Len(bubbles)
          /\ \A i \in 1 .. Len(bubbles) :
                CreationFields(bubbles'[i]) = CreationFields(bubbles[i])
          /\ frameCount' # frameCount =>
                UNCHANGED <<width, height, gridCols, gridRows>>]_vars

\* Two ticks have moved a bubble off its anchor and given it a velocity, and
\* the latest draw has painted it where it is.
C19_Witness ==
    /\ frameCount >= 2
    /\ \E i \in 1 .. Len(bubbles) :
          /\ bubbles[i].x # bubbles[i].homeX
          /\ bubbles[i].vx # 0
          /\ bubbles[i].noisePhase > 0
          /\ Len(canvas) >= i
          /\ canvas[i].x = bubbles[i].x

----------------------------------------------------------------------------
\* C20

\* The requests whose transaction the database has committed.
AppliedRequests == { r \in Reqs : requests[r].applied }

\* C20: a request that acquired a connection releases it exactly once, when it
\* leaves the handler by whatever path, and never before; a request that has
\* left without its transaction being committed holds no transaction, no lock
\* and no pending write; the committed count and the committed event rows are
\* those of the committed transactions, one increment each.
C20_ReleasedOnceAndAtomic ==
    /\ \A r \in Reqs :
          /\ requests[r].releases <= 1
          /\ requests[r].pc # "done" => requests[r].releases = 0
          /\ requests[r].pc = "done" =>
                /\ ~requests[r].connection
                /\ requests[r].releases = (IF requests[r].acquired THEN 1 ELSE 0)
                /\ ~requests[r].inTx
                /\ ~requests[r].eventLock
                /\ ~requests[r].wroteEvent
                /\ ~requests[r].wroteLike
          /\ requests[r].committed => requests[r].applied
    /\ likes = Cardinality(AppliedRequests)
    /\ events = { requests[r].ip : r \in AppliedRequests }

\* One request has failed at commit after both of its writes and has been
\* answered 500 with its connection released, while another has committed.
C20_Witness ==
    \E r, q \in Reqs :
       /\ requests[r].pc = "done"
       /\ requests[r].status = 500
       /\ requests[r].acquired
       /\ requests[r].count > 0
       /\ ~requests[r].applied
       /\ requests[r].releases = 1
       /\ requests[q].pc = "done"
       /\ requests[q].status = 200
       /\ likes = 1

----------------------------------------------------------------------------
\* C21

\* The runs of rs whose promise is pending.
InFlight(rs) == { k \in 1 .. Len(rs) : rs[k].state \in {"connecting", "likes", "events"} }

\* C21: at most one run of table creation is in flight, and it is the one
\* behind ensureTablePromise; a call made while a promise is memoised starts
\* no run and gets that promise, a call made while none is memoised starts a
\* fresh run; a fulfilled run stays memoised and is the last run; a rejected
\* run is no longer memoised once its catch callback has run; a caller goes on
\* only when its run was fulfilled and is answered 500 when it was rejected;
\* a settled run has released the connection it acquired, exactly once.
C21_SingleFlightWithRetry ==
    [][/\ Cardinality(InFlight(runs')) <= 1
       /\ \A k \in InFlight(runs') :
             /\ ensureTablePromise' = k
             /\ runs'[k].releases = 0
             /\ runs'[k].connection <=> runs'[k].acquired
       /\ \A k \in (1 .. Len(runs')) \ InFlight(runs') :
             /\ ~runs'[k].connection
             /\ runs'[k].releases = (IF runs'[k].acquired THEN 1 ELSE 0)
             /\ runs'[k].state = "fulfilled" =>
                   (ensureTablePromise' = k /\ k = Len(runs'))
             /\ (runs'[k].state = "rejected" /\ runs'[k].handled) =>
                   ensureTablePromise' # k
       /\ \A r \in Reqs :
             /\ (requests[r].pc = "ensureLikesTable" /\ requests'[r].pc # "ensureLikesTable") =>
                   IF ensureTablePromise = 0
                   THEN /\ Len(runs') = Len(runs) + 1
                        /\ requests'[r].run = Len(runs')
                        /\ ensureTablePromise' = Len(runs')
                   ELSE /\ runs' = runs
                        /\ requests'[r].run = ensureTablePromise
                        /\ ensureTablePromise' = ensureTablePromise
             /\ (requests[r].pc = "awaitEnsure" /\ requests'[r].pc # "awaitEnsure") =>
                   \/ /\ requests'[r].pc = "getConnection"
                      /\ runs[requests[r].run].state = "fulfilled"
                   \/ /\ requests'[r].pc = "done"
                      /\ requests'[r].status = 500
                      /\ runs[requests[r].run].state = "rejected"]_vars

\* A run failed after it had acquired its connection and its caller was
\* answered 500; a later call started a second run, which succeeded, and its
\* caller went on; both runs released their connection.
C21_Witness ==
    /\ Len(runs) = 2
    /\ runs[1].state = "rejected" /\ runs[1].acquired /\ runs[1].releases = 1
    /\ runs[2].state = "fulfilled" /\ runs[2].releases = 1
    /\ ensureTablePromise = 2
    /\ \E r, q \in Reqs :
          /\ requests[r].run = 1 /\ requests[r].pc = "done" /\ requests[r].status = 500
          /\ requests[q].run = 2 /\ requests[q].pc \notin {"ensureLikesTable", "awaitEnsure"}

----------------------------------------------------------------------------
\* C22

\* C22: whenever the overlay is rendered while InitialLoader is mounted, it is
\* eventually hidden and eventually un-rendered, unless the component
\* unmounts, for every sequence of runs and cleanups of the mount effect.
C22_OverlayGoesAway ==
    /\ (loader.mounted /\ loader.render /\ loader.visible)
          ~> (~loader.visible \/ ~loader.mounted)
    /\ (loader.mounted /\ loader.render) ~> (~loader.render \/ ~loader.mounted)

====
